---- MODULE Spec2Model ----
(***************************************************************************)
(* Backward rules of the reduction functions of torch.autograd             *)
(* (torch/autograd/_functions/reduce.py): Sum, Prod, Mean, the selection   *)
(* family (Max, Min, Mode, Median, Kthvalue) and Norm.                     *)
(*                                                                         *)
(* A tensor is a record [size, data]: size is the sequence of extents and  *)
(* data maps every 0-based index tuple to a number.  Numbers are exact     *)
(* rationals <<n, d>> in lowest terms; NotRat stands for every value that  *)
(* is no rational number (nan, inf, an irrational norm).                   *)
(***************************************************************************)
EXTENDS Integers, Sequences, FiniteSets, TLC

VARIABLES pc, cls, input, ctx, output, grad_output, grad_indices, ret, divided_size

vars == <<pc, cls, input, ctx, output, grad_output, grad_indices, ret, divided_size>>

(***************************************************************************)
(* Bounds of the model.                                                    *)
(***************************************************************************)
MaxRank == 2
MaxNumel == 4
MaxVal == 2
MaxGrad == 2

(***************************************************************************)
(* Python's None.  An optional integer (dim) is None or <<d>>.             *)
(***************************************************************************)
None == <<>>

(***************************************************************************)
(* Numbers.                                                                *)
(***************************************************************************)
Abs(n) == IF n < 0 THEN -n ELSE n

RECURSIVE GCD(_, _)
GCD(a, b) == IF b = 0 THEN a ELSE GCD(b, a % b)

NotRat == <<0, 0>>

Q(n, d) ==
    IF d = 0 THEN NotRat
    ELSE LET g == GCD(Abs(n), Abs(d))
             s == IF d < 0 THEN -1 ELSE 1
         IN  <<s * (n \div g), s * (d \div g)>>

Num(k) == <<k, 1>>

IsRat(a) == a[2] # 0

QAdd(a, b) == IF IsRat(a) /\ IsRat(b) THEN Q(a[1] * b[2] + b[1] * a[2], a[2] * b[2]) ELSE NotRat

QMul(a, b) == IF IsRat(a) /\ IsRat(b) THEN Q(a[1] * b[1], a[2] * b[2]) ELSE NotRat

QDiv(a, b) == IF IsRat(a) /\ IsRat(b) THEN Q(a[1] * b[2], a[2] * b[1]) ELSE NotRat

QLess(a, b) == a[1] * b[2] < b[1] * a[2]

QAbs(a) == <<Abs(a[1]), a[2]>>

RECURSIVE QPow(_, _)
QPow(a, e) ==
    IF e = 0 THEN Num(1)
    ELSE IF e < 0 THEN QDiv(Num(1), QPow(a, -e))
    ELSE QMul(a, QPow(a, e - 1))

(***************************************************************************)
(* Shapes and index tuples.                                                *)
(***************************************************************************)
RECURSIVE Indices(_)
Indices(s) ==
    IF s = <<>> THEN {<<>>}
    ELSE {<<h>> \o t : h \in 0..(s[1] - 1), t \in Indices(Tail(s))}

RECURSIVE numel(_)
numel(s) == IF s = <<>> THEN 1 ELSE s[1] * numel(Tail(s))

\* i comes before j in row-major order
RECURSIVE RowMajorLess(_, _)
RowMajorLess(i, j) ==
    IF i = <<>> THEN FALSE
    ELSE \/ i[1] < j[1]
         \/ i[1] = j[1] /\ RowMajorLess(Tail(i), Tail(j))

Tensor(s, f) == [size |-> s, data |-> f]

\* position (1-based) of axis dim in a shape of the given rank; a negative dim counts from the end
Axis(dim, rank) == IF dim < 0 THEN dim + rank + 1 ELSE dim + 1

InsertAt(s, k, v) == SubSeq(s, 1, k - 1) \o <<v>> \o SubSeq(s, k, Len(s))

RemoveAt(s, k) == SubSeq(s, 1, k - 1) \o SubSeq(s, k + 1, Len(s))

SetAt(s, k, v) == [s EXCEPT ![k] = v]

(***************************************************************************)
(* The tensor operations the rules call.                                   *)
(***************************************************************************)
fill(s, v) == Tensor(s, [i \in Indices(s) |-> v])

\* offset n of a contiguous tensor of shape s, as an index tuple
RECURSIVE Unravel(_, _)
Unravel(n, s) ==
    IF s = <<>> THEN <<>>
    ELSE <<n \div numel(Tail(s))>> \o Unravel(n % numel(Tail(s)), Tail(s))

\* t.view(-1)
view_flat(t) ==
    Tensor(<<numel(t.size)>>, [i \in Indices(<<numel(t.size)>>) |-> t.data[Unravel(i[1], t.size)]])

\* t.view_as(other): the same elements in row-major order, in other's shape
view_as(t, other) ==
    LET flat == view_flat(t)
        pos(i) == Cardinality({j \in Indices(other.size) : RowMajorLess(j, i)})
    IN  Tensor(other.size, [i \in Indices(other.size) |-> flat.data[<<pos(i)>>]])

\* t.unsqueeze(dim): a negative dim counts from the end of the result
unsqueeze(t, dim) ==
    LET k == IF dim < 0 THEN dim + Len(t.size) + 2 ELSE dim + 1
        s == InsertAt(t.size, k, 1)
    IN  Tensor(s, [i \in Indices(s) |-> t.data[RemoveAt(i, k)]])

\* t.expand(s)
expand(t, s) ==
    LET off == Len(s) - Len(t.size)
    IN  Tensor(s, [i \in Indices(s) |->
            t.data[[k \in 1..Len(t.size) |-> IF t.size[k] = 1 THEN 0 ELSE i[k + off]]]])

expand_as(t, other) == expand(t, other.size)

\* t.repeat(*repeats), len(repeats) = t.dim()
repeat(t, repeats) ==
    LET s == [k \in 1..Len(t.size) |-> t.size[k] * repeats[k]]
    IN  Tensor(s, [i \in Indices(s) |-> t.data[[k \in 1..Len(t.size) |-> i[k] % t.size[k]]]])

\* elementwise a.mul(b), a.div(b) of tensors of one shape
mul(a, b) == Tensor(a.size, [i \in Indices(a.size) |-> QMul(a.data[i], b.data[i])])

div(a, b) == Tensor(a.size, [i \in Indices(a.size) |-> QDiv(a.data[i], b.data[i])])

\* t * c, t / c for a number c
mul_scalar(t, c) == Tensor(t.size, [i \in Indices(t.size) |-> QMul(t.data[i], c)])

div_scalar(t, c) == Tensor(t.size, [i \in Indices(t.size) |-> QDiv(t.data[i], c)])

\* the elements of the slice of t through index o along axis k (1-based), in order
Slice(t, k, o) == [j \in 1..t.size[k] |-> t.data[SetAt(o, k, j - 1)]]

\* the elements of t in row-major order
Elements(t) == [n \in 1..numel(t.size) |-> t.data[Unravel(n - 1, t.size)]]

RECURSIVE SeqSum(_)
SeqSum(q) == IF q = <<>> THEN Num(0) ELSE QAdd(q[1], SeqSum(Tail(q)))

RECURSIVE SeqProd(_)
SeqProd(q) == IF q = <<>> THEN Num(1) ELSE QMul(q[1], SeqProd(Tail(q)))

SeqMean(q) == QDiv(SeqSum(q), Num(Len(q)))

\* shape of a reduction of shape s along axis k: a rank-1 tensor reduces to one element
ReducedSize(s, k, keepdim) ==
    IF keepdim \/ Len(s) = 1 THEN SetAt(s, k, 1) ELSE RemoveAt(s, k)

\* index of the input slice that output index o of a reduction along axis k stands for
SliceOf(s, k, keepdim, o) ==
    IF keepdim \/ Len(s) = 1 THEN o ELSE InsertAt(o, k, 0)

RECURSIVE Insert(_, _)
Insert(v, q) ==
    IF q = <<>> THEN <<v>>
    ELSE IF QLess(q[1], v) THEN <<q[1]>> \o Insert(v, Tail(q))
    ELSE <<v>> \o q

RECURSIVE Sorted(_)
Sorted(q) == IF q = <<>> THEN <<>> ELSE Insert(q[1], Sorted(Tail(q)))

Count(q, v) == Cardinality({j \in 1..Len(q) : q[j] = v})

\* the value t.max(), t.min(), t.median(), t.kthvalue(k), t.mode() select from the elements q
\* (c is the class the function is named after)
SelectValue(c, additional_args, q) ==
    IF c = "Max" THEN Sorted(q)[Len(q)]
    ELSE IF c = "Min" THEN Sorted(q)[1]
    ELSE IF c = "Median" THEN Sorted(q)[((Len(q) - 1) \div 2) + 1]
    ELSE IF c = "Kthvalue" THEN Sorted(q)[additional_args[1]]
    ELSE LET best == {v \in {q[j] : j \in 1..Len(q)} :
                         \A w \in {q[j] : j \in 1..Len(q)} : Count(q, w) <= Count(q, v)}
         IN  CHOOSE v \in best : \A w \in best : w = v \/ QLess(v, w)

RECURSIVE IPow(_, _)
IPow(n, e) == IF e = 0 THEN 1 ELSE n * IPow(n, e - 1)

IRoot(n, p) == IF \E r \in 0..n : IPow(r, p) = n THEN CHOOSE r \in 0..n : IPow(r, p) = n ELSE -1

\* the real p-th root of a >= 0: rational only for the p-th power of a rational
QRoot(a, p) ==
    IF ~IsRat(a) \/ a[1] < 0 \/ IRoot(a[1], p) < 0 \/ IRoot(a[2], p) < 0 THEN NotRat
    ELSE Q(IRoot(a[1], p), IRoot(a[2], p))

\* the p-norm of the elements q
PNorm(q, p) == QRoot(SeqSum([j \in 1..Len(q) |-> QPow(QAbs(q[j]), p)]), p)

\* the reduction op = <<name, argument>> of the elements q of one slice, or of all elements
Fold(op, q) ==
    IF op[1] = "sum" THEN SeqSum(q)
    ELSE IF op[1] = "prod" THEN SeqProd(q)
    ELSE IF op[1] = "mean" THEN SeqMean(q)
    ELSE IF op[1] = "norm" THEN PNorm(q, op[2])
    ELSE SelectValue(op[1], op[2], q)

\* t.sum(dim, keepdim), t.prod(dim, keepdim), t.mean(dim, keepdim), t.norm(p, dim, keepdim)
\* and the values of t.max(dim, keepdim), ...: op folds each slice along dim
ReduceDim(t, dim, keepdim, op) ==
    LET k == Axis(dim, Len(t.size))
        s == ReducedSize(t.size, k, keepdim)
    IN  Tensor(s, [o \in Indices(s) |-> Fold(op, Slice(t, k, SliceOf(t.size, k, keepdim, o)))])

\* t.sum(), t.prod(), t.mean(), t.norm(p), t.max(), t.min(): op folds all elements
ReduceAll(t, op) == Fold(op, Elements(t))

\* t.narrow(dim, start, length)
narrow(t, dim, start, length) ==
    LET k == dim + 1
        s == SetAt(t.size, k, length)
    IN  Tensor(s, [i \in Indices(s) |-> t.data[SetAt(i, k, i[k] + start)]])

\* torch.cat((a, b), dim)
cat(a, b, dim) ==
    LET k == dim + 1
        s == SetAt(a.size, k, a.size[k] + b.size[k])
    IN  Tensor(s, [i \in Indices(s) |->
            IF i[k] < a.size[k] THEN a.data[i] ELSE b.data[SetAt(i, k, i[k] - a.size[k])]])

\* t.cumprod(dim)
cumprod(t, dim) ==
    LET k == dim + 1
    IN  Tensor(t.size, [i \in Indices(t.size) |-> SeqProd(SubSeq(Slice(t, k, i), 1, i[k] + 1))])

\* t.index_select(dim, index), index a sequence of positions
index_select(t, dim, index) ==
    LET k == dim + 1
        s == SetAt(t.size, k, Len(index))
    IN  Tensor(s, [i \in Indices(s) |-> t.data[SetAt(i, k, index[i[k] + 1])]])

\* torch.arange(n - 1, -1, -1)
arange_down(n) == [j \in 1..n |-> n - j]

\* self.scatter_(dim, index, src): self[.., index[i], ..] = src[i] for every i of index
scatter_(self, dim, index, src) ==
    LET k == Axis(dim, Len(self.size))
        hits(j) == {i \in Indices(index.size) : SetAt(i, k, index.data[i]) = j}
    IN  Tensor(self.size, [j \in Indices(self.size) |->
            IF hits(j) = {} THEN self.data[j]
            ELSE src.data[CHOOSE i \in hits(j) : TRUE]])

\* (t == v).nonzero(): the positions holding v; [0] is the first in row-major order
nonzero_eq(t, v) == {i \in Indices(t.size) : t.data[i] = v}

\* First taking the last match ([-1] for [0])
First_mut(S) == CHOOSE i \in S : \A j \in S : j = i \/ RowMajorLess(j, i)

First(S) == CHOOSE i \in S : \A j \in S : j = i \/ RowMajorLess(i, j)

(***************************************************************************)
(* What a backward call ends with: a returned tuple or a raised exception. *)
(***************************************************************************)
Return(v) == [raised |-> FALSE, value |-> v]

Raise(e) == [raised |-> TRUE, value |-> e]

\* ctx.keepdim is False and len(ctx.input_size) != 1
Reinsert(c) == c.keepdim = FALSE /\ Len(c.input_size) # 1

\* Repeats without the assignment repeats[ctx.dim] = ctx.input_size[ctx.dim]
Repeats_mut(c) == [j \in 1..Len(c.input_size) |-> 1]

\* repeats = [1 for _ in ctx.input_size]; repeats[ctx.dim] = ctx.input_size[ctx.dim]
Repeats(c) ==
    LET k == Axis(c.dim[1], Len(c.input_size))
    IN  SetAt([j \in 1..Len(c.input_size) |-> 1], k, c.input_size[k])

(***************************************************************************)
(* Sum                                                                     *)
(***************************************************************************)
Sum_forward(inp, dim, keepdim) ==
    [ctx |-> [dim |-> dim, keepdim |-> keepdim, input_size |-> inp.size],
     out |-> IF dim = None
             THEN Tensor(<<1>>, [i \in Indices(<<1>>) |-> ReduceAll(inp, <<"sum", None>>)])
             ELSE ReduceDim(inp, dim[1], keepdim, <<"sum", None>>)]

Sum_backward(c, g) ==
    IF c.dim = None
    THEN Return(<<expand(g, c.input_size), None, None>>)
    ELSE LET g1 == IF Reinsert(c) THEN unsqueeze(g, c.dim[1]) ELSE g
         IN  Return(<<repeat(g1, Repeats(c)), None, None>>)

(***************************************************************************)
(* Prod                                                                    *)
(***************************************************************************)
Prod_forward(inp, dim, keepdim) ==
    IF dim = None
    THEN LET result == ReduceAll(inp, <<"prod", None>>)
         IN  [ctx |-> [dim |-> dim, keepdim |-> keepdim, input_size |-> inp.size,
                       result |-> result, saved |-> <<inp>>],
              out |-> Tensor(<<1>>, [i \in Indices(<<1>>) |-> result])]
    ELSE LET out == ReduceDim(inp, dim[1], keepdim, <<"prod", None>>)
         IN  [ctx |-> [dim |-> dim, keepdim |-> keepdim, input_size |-> inp.size,
                       saved |-> <<inp, out>>],
              out |-> out]

\* var.index_select(dim, arange(var.size(dim) - 1, -1, -1))
reverse_dim(var, dim) == index_select(var, dim, arange_down(var.size[dim + 1]))

\* safe_zeros_backward without reversing the reverse cumulative product back
safe_zeros_backward_mut(g, inp, dim) ==
    IF inp.size[dim + 1] = 1
    THEN g
    ELSE LET n == inp.size[dim + 1]
             ones == fill(SetAt(inp.size, dim + 1, 1), Num(1))
             exclusive_normal_nocp == cat(ones, narrow(inp, dim, 0, n - 1), dim)
             exclusive_normal == cumprod(exclusive_normal_nocp, dim)
             narrow_reverse == reverse_dim(narrow(inp, dim, 1, n - 1), dim)
             exclusive_reverse_nocp == cat(ones, narrow_reverse, dim)
             exclusive_reverse == cumprod(exclusive_reverse_nocp, dim)
         IN  mul(expand_as(g, exclusive_normal), mul(exclusive_normal, exclusive_reverse))

safe_zeros_backward(g, inp, dim) ==
    IF inp.size[dim + 1] = 1
    THEN g
    ELSE LET n == inp.size[dim + 1]
             ones == fill(SetAt(inp.size, dim + 1, 1), Num(1))
             exclusive_normal_nocp == cat(ones, narrow(inp, dim, 0, n - 1), dim)
             exclusive_normal == cumprod(exclusive_normal_nocp, dim)
             narrow_reverse == reverse_dim(narrow(inp, dim, 1, n - 1), dim)
             exclusive_reverse_nocp == cat(ones, narrow_reverse, dim)
             exclusive_reverse == reverse_dim(cumprod(exclusive_reverse_nocp, dim), dim)
         IN  mul(expand_as(g, exclusive_normal), mul(exclusive_normal, exclusive_reverse))

\* grad_output.mul(output).expand_as(input).div(input)
closed_form(g, out, inp) == div(expand_as(mul(g, out), inp), inp)

\* Prod_global_branch with the all-zero branch taken from one zero on (>= 1 for > 1)
Prod_global_branch_mut(inp) ==
    LET zero_idx == nonzero_eq(inp, Num(0))
    IN  IF zero_idx = {} THEN "closed"
        ELSE IF Cardinality(zero_idx) >= 1 THEN "zero"
        ELSE "safe"

\* the branch the global case takes, from the number of zeros of the input
Prod_global_branch(inp) ==
    LET zero_idx == nonzero_eq(inp, Num(0))
    IN  IF zero_idx = {} THEN "closed"
        ELSE IF Cardinality(zero_idx) > 1 THEN "zero"
        ELSE "safe"

\* total_zeros reading the count of the first slice only (no sum over the slices)
total_zeros_mut(inp, dim) ==
    LET zero_mask == Tensor(inp.size, [i \in Indices(inp.size) |->
                                          IF inp.data[i] = Num(0) THEN Num(1) ELSE Num(0)])
        slice_zero_count == ReduceDim(zero_mask, dim, TRUE, <<"sum", None>>)
    IN  Elements(slice_zero_count)[1]

\* total_zeros: the sum over the slices of the number of zeros of each
total_zeros(inp, dim) ==
    LET zero_mask == Tensor(inp.size, [i \in Indices(inp.size) |->
                                          IF inp.data[i] = Num(0) THEN Num(1) ELSE Num(0)])
        slice_zero_count == ReduceDim(zero_mask, dim, TRUE, <<"sum", None>>)
    IN  ReduceAll(slice_zero_count, <<"sum", None>>)

Prod_backward(c, g) ==
    IF c.dim = None
    THEN LET inp == c.saved[1]
             branch == Prod_global_branch(inp)
         IN  IF branch = "closed"
             THEN Return(<<div(expand_as(mul_scalar(g, c.result), inp), inp), None, None>>)
             ELSE IF branch = "zero"
             THEN Return(<<expand_as(mul_scalar(g, Num(0)), inp), None, None>>)
             ELSE Return(<<view_as(safe_zeros_backward(g, view_flat(inp), 0), inp), None, None>>)
    ELSE LET inp == c.saved[1]
             dim == IF c.dim[1] >= 0 THEN c.dim[1] ELSE c.dim[1] + Len(inp.size)
             g1 == IF Reinsert(c) THEN unsqueeze(g, dim) ELSE g
             out == IF Reinsert(c) THEN unsqueeze(c.saved[2], dim) ELSE c.saved[2]
             grad_input == IF total_zeros(inp, dim) = Num(0)
                           THEN closed_form(g1, out, inp)
                           ELSE safe_zeros_backward(g1, inp, dim)
         IN  Return(<<grad_input, None, None>>)

(***************************************************************************)
(* Mean                                                                    *)
(***************************************************************************)
Mean_forward(inp, dim, keepdim) ==
    [ctx |-> [dim |-> dim, keepdim |-> keepdim, input_size |-> inp.size],
     out |-> IF dim = None
             THEN Tensor(<<1>>, [i \in Indices(<<1>>) |-> ReduceAll(inp, <<"mean", None>>)])
             ELSE ReduceDim(inp, dim[1], keepdim, <<"mean", None>>)]

\* Mean_dividend with the per-axis division moved before the repeat
Mean_dividend_mut(c, g) ==
    IF c.dim = None
    THEN g
    ELSE IF Reinsert(c) THEN unsqueeze(g, c.dim[1]) ELSE g

\* the tensor Mean.backward applies its division to
Mean_dividend(c, g) ==
    IF c.dim = None
    THEN g
    ELSE LET g1 == IF Reinsert(c) THEN unsqueeze(g, c.dim[1]) ELSE g
         IN  repeat(g1, Repeats(c))

\* Mean_backward dividing by the total element count in the per-axis case too
Mean_backward_mut(c, g) ==
    IF c.dim = None
    THEN LET grad_input_val == div_scalar(Mean_dividend(c, g), Num(numel(c.input_size)))
         IN  Return(<<expand(grad_input_val, c.input_size), None, None>>)
    ELSE Return(<<div_scalar(Mean_dividend(c, g), Num(numel(c.input_size))), None, None>>)

Mean_backward(c, g) ==
    IF c.dim = None
    THEN LET grad_input_val == div_scalar(Mean_dividend(c, g), Num(numel(c.input_size)))
         IN  Return(<<expand(grad_input_val, c.input_size), None, None>>)
    ELSE LET dim_size == c.input_size[Axis(c.dim[1], Len(c.input_size))]
         IN  Return(<<div_scalar(Mean_dividend(c, g), Num(dim_size)), None, None>>)

(***************************************************************************)
(* The selection family: Max, Min, Mode, Median, Kthvalue                  *)
(***************************************************************************)
has_all_reduce(c) == c \in {"Max", "Min"}

\* the index tensors fn(dim, keepdim) may return with the values out: in each
\* slice a position that holds the selected value (which one is the tensor library's choice)
IndexChoices(inp, dim, keepdim, out) ==
    LET k == Axis(dim, Len(inp.size))
    IN  {Tensor(out.size, f) : f \in
            {f \in [Indices(out.size) -> 0..(inp.size[k] - 1)] :
                \A o \in Indices(out.size) :
                    Slice(inp, k, SliceOf(inp.size, k, keepdim, o))[f[o] + 1] = out.data[o]}}

\* the axis the per-axis branch works on
WorkingDim(c) == IF c.dim = None THEN Len(c.input_size) - 1 ELSE c.dim[1]

Selection_output(c, inp, dim, keepdim, additional_args) ==
    LET d == IF dim = None THEN Len(inp.size) - 1 ELSE dim[1]
    IN  ReduceDim(inp, d, keepdim, <<c, additional_args>>)

Selection_forward(c, inp, dim, keepdim, additional_args, indices) ==
    IF dim = None /\ has_all_reduce(c)
    THEN LET value == ReduceAll(inp, <<c, additional_args>>)
         IN  [ctx |-> [dim |-> dim, keepdim |-> keepdim, additional_args |-> additional_args,
                       input_size |-> inp.size,
                       indices_tuple |-> First(nonzero_eq(inp, value))],
              out |-> <<Tensor(<<1>>, [i \in Indices(<<1>>) |-> value])>>]
    ELSE [ctx |-> [dim |-> dim, keepdim |-> keepdim, additional_args |-> additional_args,
                   input_size |-> inp.size, saved |-> <<indices>>],
          out |-> <<Selection_output(c, inp, dim, keepdim, additional_args), indices>>]

Selection_backward(c, cx, g, gi) ==
    LET grad_input == fill(cx.input_size, Num(0))
    IN  IF cx.dim = None /\ has_all_reduce(c)
        THEN Return(<<Tensor(grad_input.size,
                             [grad_input.data EXCEPT ![cx.indices_tuple] = g.data[<<0>>]]),
                      None, None, None>>)
        ELSE LET dim == WorkingDim(cx)
                 indices == cx.saved[1]
             IN  IF Reinsert(cx)
                 THEN IF gi = None
                      THEN Raise("AttributeError")
                      ELSE Return(<<scatter_(grad_input, dim, unsqueeze(indices, dim),
                                             unsqueeze(g, dim)),
                                    None, None, None>>)
                 ELSE Return(<<scatter_(grad_input, dim, indices, g), None, None, None>>)

(***************************************************************************)
(* Norm                                                                    *)
(***************************************************************************)
abs(t) == Tensor(t.size, [i \in Indices(t.size) |-> QAbs(t.data[i])])

pow(t, e) == Tensor(t.size, [i \in Indices(t.size) |-> QPow(t.data[i], e)])

Norm_forward(inp, p, dim, keepdim) ==
    IF dim = None
    THEN LET norm == ReduceAll(inp, <<"norm", p>>)
         IN  [ctx |-> [p |-> p, dim |-> dim, keepdim |-> keepdim, norm |-> norm,
                       saved |-> <<inp>>],
              out |-> Tensor(<<1>>, [i \in Indices(<<1>>) |-> norm])]
    ELSE LET out == ReduceDim(inp, dim[1], keepdim, <<"norm", p>>)
         IN  [ctx |-> [p |-> p, dim |-> dim, keepdim |-> keepdim, saved |-> <<inp, out>>],
              out |-> out]

Norm_backward(c, g) ==
    IF c.dim = None
    THEN LET inp == c.saved[1]
         IN  IF c.p = 2
             THEN LET scale_v == expand_as(div_scalar(g, c.norm), inp)
                  IN  Return(<<mul(inp, scale_v), None, None, None>>)
             ELSE LET pw == pow(abs(inp), c.p - 2)
                      scale_v == expand_as(div_scalar(g, QPow(c.norm, c.p - 1)), inp)
                  IN  Return(<<mul(mul(inp, pw), scale_v), None, None, None>>)
    ELSE LET inp == c.saved[1]
             re == c.keepdim = FALSE /\ Len(inp.size) # 1
             g1 == IF re THEN unsqueeze(g, c.dim[1]) ELSE g
             out == IF re THEN unsqueeze(c.saved[2], c.dim[1]) ELSE c.saved[2]
             big_grad_output == expand_as(g1, inp)
         IN  IF c.p = 2
             THEN LET big_output == expand_as(out, inp)
                  IN  Return(<<div(mul(inp, big_grad_output), big_output), None, None, None>>)
             ELSE LET pw == pow(abs(inp), c.p - 2)
                      big_output == expand_as(pow(out, c.p - 1), inp)
                  IN  Return(<<div(mul(mul(inp, pw), big_grad_output), big_output),
                               None, None, None>>)

(***************************************************************************)
(* The arguments the calls are made with.                                  *)
(***************************************************************************)
Shapes ==
    {s \in UNION {[1..r -> 1..MaxNumel] : r \in 1..MaxRank} : numel(s) <= MaxNumel}

Inputs ==
    UNION {{Tensor(s, f) : f \in [Indices(s) -> {Num(v) : v \in 0..MaxVal}]} : s \in Shapes}

\* dim: absent, or an axis in range counted from the front or from the end
Dims(inp) == {None} \cup {<<d>> : d \in (-Len(inp.size))..(Len(inp.size) - 1)}

\* row-major offset of index i in shape s
RECURSIVE Ravel(_, _)
Ravel(i, s) == IF s = <<>> THEN 0 ELSE i[1] * numel(Tail(s)) + Ravel(Tail(i), Tail(s))

\* upstream gradients of shape s: constant ones, and ones that differ in every element
Grads(s) ==
    {Tensor(s, [i \in Indices(s) |-> Num(c + step * Ravel(i, s))]) :
        c \in 1..MaxGrad, step \in {0, 1}}

\* the gradient passed for the indices output: absent, or zeros
GradIndices(out) == {None, fill(out[Len(out)].size, 0)}

Ps == {1, 2, 3}

SelectionClasses == {"Max", "Min", "Mode", "Median", "Kthvalue"}

(***************************************************************************)
(* The calls: one forward, then the backward of the same rule with the     *)
(* context forward filled.                                                 *)
(***************************************************************************)
Init ==
    /\ pc = "start"
    /\ cls = "none"
    /\ input = None
    /\ ctx = None
    /\ output = None
    /\ grad_output = None
    /\ grad_indices = None
    /\ ret = None
    /\ divided_size = None

Forwarded(c, inp, r) ==
    /\ pc' = "forwarded"
    /\ cls' = c
    /\ input' = inp
    /\ ctx' = r.ctx
    /\ output' = r.out
    /\ UNCHANGED <<grad_output, grad_indices, ret, divided_size>>

Backwarded(g, gi, r, d) ==
    /\ pc' = "done"
    /\ grad_output' = g
    /\ grad_indices' = gi
    /\ ret' = r
    /\ divided_size' = d
    /\ UNCHANGED <<cls, input, ctx, output>>

Wrap(r) == [ctx |-> r.ctx, out |-> <<r.out>>]

SumForward ==
    /\ pc = "start"
    /\ \E inp \in Inputs : \E dim \in Dims(inp) : \E keepdim \in BOOLEAN :
           Forwarded("Sum", inp, Wrap(Sum_forward(inp, dim, keepdim)))

SumBackward ==
    /\ pc = "forwarded" /\ cls = "Sum"
    /\ \E g \in Grads(output[1].size) :
        Backwarded(g, None, Sum_backward(ctx, g), None)

ProdForward ==
    /\ pc = "start"
    /\ \E inp \in Inputs : \E dim \in Dims(inp) : \E keepdim \in BOOLEAN :
           Forwarded("Prod", inp, Wrap(Prod_forward(inp, dim, keepdim)))

ProdBackward ==
    /\ pc = "forwarded" /\ cls = "Prod"
    /\ \E g \in Grads(output[1].size) :
        Backwarded(g, None, Prod_backward(ctx, g), None)

MeanForward ==
    /\ pc = "start"
    /\ \E inp \in Inputs : \E dim \in Dims(inp) : \E keepdim \in BOOLEAN :
           Forwarded("Mean", inp, Wrap(Mean_forward(inp, dim, keepdim)))

MeanBackward ==
    /\ pc = "forwarded" /\ cls = "Mean"
    /\ \E g \in Grads(output[1].size) :
        Backwarded(g, None, Mean_backward(ctx, g), Mean_dividend(ctx, g).size)

\* the index tensors the forward of class c may get from the tensor function
ForwardIndices(c, inp, dim, keepdim, additional_args) ==
    IF dim = None /\ has_all_reduce(c) THEN {None}
    ELSE IndexChoices(inp, IF dim = None THEN Len(inp.size) - 1 ELSE dim[1], keepdim,
                      Selection_output(c, inp, dim, keepdim, additional_args))

\* _SelectionFunction.forward as the class c inherits it
SelectionForward(c) ==
    \E inp \in Inputs : \E dim \in Dims(inp) : \E keepdim \in BOOLEAN :
        \E indices \in ForwardIndices(c, inp, dim, keepdim, <<>>) :
            Forwarded(c, inp, Selection_forward(c, inp, dim, keepdim, <<>>, indices))

\* _SelectionFunction.backward as the class c inherits it
SelectionBackward(c) ==
    \E g \in Grads(output[1].size) : \E gi \in GradIndices(output) :
        Backwarded(g, gi, Selection_backward(c, ctx, g, gi), None)

MaxForward ==
    /\ pc = "start"
    /\ SelectionForward("Max")

MaxBackward ==
    /\ pc = "forwarded" /\ cls = "Max"
    /\ SelectionBackward("Max")

MinForward ==
    /\ pc = "start"
    /\ SelectionForward("Min")

MinBackward ==
    /\ pc = "forwarded" /\ cls = "Min"
    /\ SelectionBackward("Min")

ModeForward ==
    /\ pc = "start"
    /\ SelectionForward("Mode")

ModeBackward ==
    /\ pc = "forwarded" /\ cls = "Mode"
    /\ SelectionBackward("Mode")

MedianForward ==
    /\ pc = "start"
    /\ SelectionForward("Median")

MedianBackward ==
    /\ pc = "forwarded" /\ cls = "Median"
    /\ SelectionBackward("Median")

\* Kthvalue.forward(ctx, input, k, dim, keepdim)
KthvalueForward ==
    /\ pc = "start"
    /\ \E inp \in Inputs : \E dim \in Dims(inp) : \E keepdim \in BOOLEAN :
           \E k \in 1..inp.size[Axis(IF dim = None THEN Len(inp.size) - 1 ELSE dim[1], Len(inp.size))] :
               \E indices \in ForwardIndices("Kthvalue", inp, dim, keepdim, <<k>>) :
                   Forwarded("Kthvalue", inp,
                             Selection_forward("Kthvalue", inp, dim, keepdim, <<k>>, indices))

KthvalueBackward ==
    /\ pc = "forwarded" /\ cls = "Kthvalue"
    /\ SelectionBackward("Kthvalue")

NormForward ==
    /\ pc = "start"
    /\ \E inp \in Inputs : \E p \in Ps : \E dim \in Dims(inp) : \E keepdim \in BOOLEAN :
           Forwarded("Norm", inp, Wrap(Norm_forward(inp, p, dim, keepdim)))

NormBackward ==
    /\ pc = "forwarded" /\ cls = "Norm"
    /\ \E g \in Grads(output[1].size) :
        Backwarded(g, None, Norm_backward(ctx, g), None)

NextSum == SumForward \/ SumBackward

NextProd == ProdForward \/ ProdBackward

NextMean == MeanForward \/ MeanBackward

NextMaxMin == MaxForward \/ MaxBackward \/ MinForward \/ MinBackward

NextSelection ==
    \/ NextMaxMin
    \/ ModeForward \/ ModeBackward
    \/ MedianForward \/ MedianBackward
    \/ KthvalueForward \/ KthvalueBackward

NextNorm == NormForward \/ NormBackward

Next == NextSum \/ NextProd \/ NextMean \/ NextSelection \/ NextNorm

Spec == Init /\ [][Next]_vars

SpecSum == Init /\ [][NextSum]_vars

SpecProd == Init /\ [][NextProd]_vars

SpecMean == Init /\ [][NextMean]_vars

SpecMaxMin == Init /\ [][NextMaxMin]_vars

SpecSelection == Init /\ [][NextSelection]_vars

(***************************************************************************)
(* What the claims speak of, stated from the arguments of the calls and    *)
(* not from the rules above.                                               *)
(***************************************************************************)
Done(c) == pc = "done" /\ cls = c

DoneSelection == pc = "done" /\ cls \in SelectionClasses

\* the call reduced over everything
Global == ctx.dim = None /\ (cls \in SelectionClasses => has_all_reduce(cls))

\* the axis (1-based) forward reduced over: the given dim, or the last axis
ReducedAxis ==
    IF ctx.dim = None THEN Len(input.size)
    ELSE IF ctx.dim[1] < 0 THEN ctx.dim[1] + Len(input.size) + 1 ELSE ctx.dim[1] + 1

\* the positions of the reduced slice that holds position i
SliceMembers(i) ==
    IF Global THEN Indices(input.size)
    ELSE {j \in Indices(input.size) :
             \A m \in 1..Len(input.size) : m = ReducedAxis \/ j[m] = i[m]}

\* the position, in a tensor of forward's output shape, of the slice that holds i
OutputIndex(t, i) ==
    IF Global THEN <<0>>
    ELSE IF Len(t.size) = Len(input.size) THEN SetAt(i, ReducedAxis, 0)
    ELSE RemoveAt(i, ReducedAxis)

\* the grad_output entry of the slice that holds i
GradOf(i) == grad_output.data[OutputIndex(grad_output, i)]

RECURSIVE ProductOver(_)
ProductOver(S) ==
    IF S = {} THEN Num(1)
    ELSE LET j == CHOOSE j \in S : TRUE
         IN  QMul(input.data[j], ProductOver(S \ {j}))

ZerosIn(S) == {j \in S : input.data[j] = Num(0)}

AllOnes(t) == \A i \in Indices(t.size) : t.data[i] = Num(1)

\* the gradient backward returned for the input
GradInput == ret.value[1]

(***************************************************************************)
(* C6: Sum.backward returns (grad_input, None, None); every element of     *)
(* grad_input is the grad_output entry of the reduced slice it belongs to, *)
(* so a grad_output of ones gives ones in the shape of the input, for dim  *)
(* absent or any axis, keepdim true or false, rank 1 included.             *)
(***************************************************************************)
C6_SumBackward ==
    Done("Sum") =>
        /\ ~ret.raised
        /\ ret.value = <<Tensor(input.size, [i \in Indices(input.size) |-> GradOf(i)]), None, None>>
        /\ AllOnes(grad_output) => GradInput = fill(input.size, Num(1))

C6_Witness ==
    /\ Done("Sum")
    /\ Len(input.size) = 2
    /\ ctx.dim # None /\ ctx.keepdim = FALSE
    /\ input.size[ReducedAxis] > 1
    /\ AllOnes(grad_output)
    /\ GradInput = fill(input.size, Num(1))

(***************************************************************************)
(* C7: Mean.backward of a grad_output of ones is a tensor in the shape of  *)
(* the input filled with 1/count, count the number of elements averaged:   *)
(* all of them when dim is absent, the extent along dim otherwise.         *)
(***************************************************************************)
C7_MeanBackwardOnes ==
    Done("Mean") /\ AllOnes(grad_output) =>
        /\ ~ret.raised
        /\ GradInput = Tensor(input.size, [i \in Indices(input.size) |->
                                  Q(1, Cardinality(SliceMembers(i)))])
        /\ \A i \in Indices(input.size) :
               Cardinality(SliceMembers(i)) =
                   IF ctx.dim = None THEN numel(input.size) ELSE input.size[ReducedAxis]

C7_Witness ==
    /\ Done("Mean") /\ AllOnes(grad_output)
    /\ input.size = <<2, 2>>
    /\ ctx.dim = <<-1>> /\ ctx.keepdim = FALSE
    /\ GradInput.data[<<1, 1>>] = <<1, 2>>

(***************************************************************************)
(* C9 as stated: in Mean.backward the division by the count is applied     *)
(* after grad_output was replicated to the shape of the input, with dim    *)
(* absent and with dim given.                                              *)
(***************************************************************************)
C9_DivisionAfterReplication ==
    Done("Mean") => divided_size = input.size

(***************************************************************************)
(* C9 as amended: with dim given, the division is applied to grad_output   *)
(* repeated to the shape of the input; with dim absent it is applied to    *)
(* the one-element grad_output, and the quotient is expanded afterwards.   *)
(***************************************************************************)
C9_DivisionOrder ==
    Done("Mean") =>
        /\ ctx.dim # None => divided_size = input.size
        /\ ctx.dim = None => divided_size = grad_output.size /\ divided_size = <<1>>
        /\ GradInput.size = input.size

C9_Witness ==
    /\ Done("Mean")
    /\ ctx.dim = None
    /\ numel(input.size) > 1
    /\ divided_size = <<1>>
    /\ GradInput.size = input.size

(***************************************************************************)
(* C2: Prod.backward returns at every position i grad_output (of the slice *)
(* holding i) times the product of all other elements of that slice, for   *)
(* dim absent or given and for any number of zeros in the slice.           *)
(***************************************************************************)
C2_ProdRule ==
    Done("Prod") =>
        /\ ~ret.raised
        /\ GradInput = Tensor(input.size, [i \in Indices(input.size) |->
                                  QMul(GradOf(i), ProductOver(SliceMembers(i) \ {i}))])

\* a 1-D input with exactly one zero, at position 1, among three elements
C2_Witness ==
    /\ Done("Prod")
    /\ input.size = <<3>>
    /\ ZerosIn(Indices(input.size)) = {<<1>>}
    /\ GradInput.data[<<1>>] = QMul(GradOf(<<1>>), QMul(input.data[<<0>>], input.data[<<2>>]))
    /\ GradInput.data[<<1>>] # Num(0)
    /\ GradInput.data[<<0>>] = Num(0) /\ GradInput.data[<<2>>] = Num(0)

(***************************************************************************)
(* C3: when a reduced slice holds two or more zeros (the whole input when  *)
(* dim is absent), Prod.backward returns exactly zero at every position of *)
(* that slice, whatever grad_output is; with dim given such a slice goes   *)
(* through safe_zeros_backward.                                            *)
(***************************************************************************)
C3_TwoZerosGiveZero ==
    Done("Prod") =>
        /\ ~ret.raised
        /\ \A i \in Indices(input.size) :
               Cardinality(ZerosIn(SliceMembers(i))) >= 2 => GradInput.data[i] = Num(0)

\* dim given: a row of two zeros next to a row without zeros
C3_Witness ==
    /\ Done("Prod")
    /\ ctx.dim = <<1>>
    /\ input.size = <<2, 2>>
    /\ ZerosIn(Indices(input.size)) = {<<0, 0>>, <<0, 1>>}
    /\ GradInput.data[<<0, 0>>] = Num(0) /\ GradInput.data[<<0, 1>>] = Num(0)
    /\ GradInput.data[<<1, 0>>] # Num(0)

(***************************************************************************)
(* C8: with dim given and a zero somewhere in the input, the whole tensor  *)
(* is computed by safe_zeros_backward, and in every slice without a zero   *)
(* the result equals the closed form grad_output * output / input_element. *)
(***************************************************************************)
C8_SafePathMatchesClosedForm ==
    Done("Prod") /\ ctx.dim # None /\ ZerosIn(Indices(input.size)) # {} =>
        \A i \in Indices(input.size) :
            ZerosIn(SliceMembers(i)) = {} =>
                GradInput.data[i] =
                    QDiv(QMul(GradOf(i), output[1].data[OutputIndex(output[1], i)]),
                         input.data[i])

\* the rows [1, 2] and [2, 0]: the second takes the whole tensor to the safe path
C8_Witness ==
    /\ Done("Prod")
    /\ ctx.dim = <<1>> /\ ctx.keepdim = FALSE
    /\ input.size = <<2, 2>>
    /\ ZerosIn(Indices(input.size)) = {<<1, 1>>}
    /\ input.data[<<0, 0>>] = Num(1) /\ input.data[<<0, 1>>] = Num(2)
    /\ GradInput.data[<<0, 0>>] = QMul(GradOf(<<0, 0>>), Num(2))
    /\ GradInput.data[<<0, 1>>] = GradOf(<<0, 1>>)

(***************************************************************************)
(* C4: for Max and Min with dim absent, backward returns a gradient that   *)
(* holds the whole grad_output at the first position, in row-major order,  *)
(* whose element is the extreme value, and zero everywhere else; of tied   *)
(* positions only the first receives the gradient.                         *)
(***************************************************************************)
IsExtreme(i) ==
    \A j \in Indices(input.size) :
        IF cls = "Max" THEN ~QLess(input.data[i], input.data[j])
        ELSE ~QLess(input.data[j], input.data[i])

FirstExtreme(i) ==
    /\ IsExtreme(i)
    /\ \A j \in Indices(input.size) : RowMajorLess(j, i) => input.data[j] # input.data[i]

C4_GlobalMaxMinFirstPosition ==
    pc = "done" /\ cls \in {"Max", "Min"} /\ ctx.dim = None =>
        /\ ~ret.raised
        /\ ret.value = <<Tensor(input.size, [i \in Indices(input.size) |->
                                    IF FirstExtreme(i) THEN grad_output.data[<<0>>] ELSE Num(0)]),
                         None, None, None>>

\* the maximum 2 at <<0, 1>> and again at <<1, 0>>
C4_Witness ==
    /\ Done("Max") /\ ctx.dim = None
    /\ input.size = <<2, 2>>
    /\ input.data[<<0, 0>>] = Num(1) /\ input.data[<<0, 1>>] = Num(2)
    /\ input.data[<<1, 0>>] = Num(2) /\ input.data[<<1, 1>>] = Num(0)
    /\ GradInput.data[<<0, 1>>] = grad_output.data[<<0>>]
    /\ GradInput.data[<<1, 0>>] = Num(0)

(***************************************************************************)
(* C5: for Max, Min, Mode, Median and Kthvalue in the per-axis case, for   *)
(* every input, dim and keepdim, backward returns a gradient that in each  *)
(* slice along the reduction axis holds the slice's grad_output value at   *)
(* the index forward saved and zero elsewhere; the axis is the given dim,  *)
(* or the last axis when dim is absent and the class has no global form,   *)
(* and then forward returned the per-axis pair (output, indices).          *)
(***************************************************************************)
C5_PerAxisScatter ==
    DoneSelection /\ ~Global =>
        /\ Len(output) = 2
        /\ ~ret.raised
        /\ GradInput = Tensor(input.size, [i \in Indices(input.size) |->
                                  IF i[ReducedAxis] = output[2].data[OutputIndex(output[2], i)]
                                  THEN GradOf(i) ELSE Num(0)])

(***************************************************************************)
(* C10: backward of the selection classes called with grad_indices absent  *)
(* completes and returns the same tuple (grad_input, None, None, None) as  *)
(* with a supplied grad_indices, for dim absent or given, keepdim true or  *)
(* false and every rank.                                                   *)
(***************************************************************************)
C10_GradIndicesOptional ==
    DoneSelection /\ grad_indices = None =>
        /\ ~ret.raised
        /\ \A gi \in GradIndices(output) \ {None} :
               ret = Selection_backward(cls, ctx, grad_output, gi)
        /\ ret.value[2] = None /\ ret.value[3] = None /\ ret.value[4] = None

(***************************************************************************)
(* C1: for every rule, every input of rank >= 1 and every valid dim and    *)
(* keepdim, backward given a grad_output in the shape of forward's output  *)
(* returns a tuple whose first element has exactly the shape of the input. *)
(***************************************************************************)
C1_GradInputShape ==
    pc = "done" /\ grad_output.size = output[1].size =>
        /\ ~ret.raised
        /\ GradInput.size = input.size

(***************************************************************************)
(* The one call that breaks C1, C5 and C10: backward raises exactly when   *)
(* grad_indices is absent in the per-axis case with keepdim false and an   *)
(* input of rank above 1; every other call satisfies C1, C5 and C10.       *)
(***************************************************************************)
RaisesOnlyWithoutGradIndices ==
    pc = "done" =>
        (ret.raised <=> /\ cls \in SelectionClasses
                        /\ grad_indices = None
                        /\ ~Global
                        /\ ctx.keepdim = FALSE
                        /\ Len(input.size) > 1)

HoldsWhenReturned ==
    pc = "done" /\ ~ret.raised =>
        /\ C1_GradInputShape
        /\ C5_PerAxisScatter
        /\ C10_GradIndicesOptional

====
